---- MODULE Spec2Model ----
(***************************************************************************)
(* A model of gcp/bigquery/_table.py: the Table object's one-page row      *)
(* cache (__getitem__), the paged row fetcher (_get_row_fetcher and the    *)
(* to_dataframe loop that drives it), the streaming insert (insertAll)     *)
(* and the table decorators (snapshot, window).                            *)
(*                                                                         *)
(* Conventions.  Python's None is the empty sequence <<>> and an optional  *)
(* value v is <<v>>.  A remote row is identified with its position in the  *)
(* remote table, so two different rows are never equal.  A page token is   *)
(* the position at which the next page starts.  Times are milliseconds.    *)
(***************************************************************************)
EXTENDS Integers, Sequences, FiniteSets, TLC

VARIABLES
  remoteRows,         \* the service: number of rows of the remote table
  remoteHasCount,     \* the service: whether tables.get reports numRows
  remoteExists,       \* the service: whether the table exists
  remoteDescription,  \* the service: the description of the table
  info,               \* Table._info: None or the cached tables.get answer
  cached_page,        \* Table._cached_page (None and [] are both <<>>)
  cached_page_index,  \* Table._cached_page_index
  getResult,          \* the outcome of the last __getitem__ call
  iter,               \* the state of a to_dataframe fetch loop
  ins,                \* the state of an insertAll call
  sent,               \* the tabledata_insertAll requests of that call, in order,
                      \* each with the response the service gave
  applied,            \* the rows the service has applied from those requests
  table,              \* the Table object snapshot/window are called on: the
                      \* decorators its name carries, in order
  now,                \* the clock, milliseconds since the epoch
  decoResult,         \* the outcome of the last snapshot/window call
  meta,               \* the outcome of the last metadata, schema, length,
                      \* exists, update or delete call
  iter2,              \* the state of a second fetch loop on the same Table
  column_name_map,    \* insertAll's column_name_map
  enc,                \* insertAll's encoding of the records: the records
                      \* and, for those encoded so far, the rows made of them
  sl                  \* the state of the last slice lookup: its loop's
                      \* position, i, step and result

vars == <<remoteRows, remoteHasCount, remoteExists, remoteDescription, info,
          cached_page, cached_page_index, getResult, iter, ins, sent, applied,
          table, now, decoResult, meta, iter2, column_name_map, enc, sl>>

serviceVars == <<remoteRows, remoteHasCount, remoteExists, remoteDescription>>
cacheVars == <<cached_page, cached_page_index, getResult>>
insertVars == <<ins, sent, applied>>
decoVars == <<table, now, decoResult>>
encodeVars == <<column_name_map, enc>>

(***************************************************************************)
(* Program constants.                                                      *)
(***************************************************************************)
DEFAULT_PAGE_SIZE == 1024

MSEC_PER_WEEK == 7 * 24 * 3600 * 1000

max_rows_per_post == 500

(***************************************************************************)
(* Bounds of the model.                                                    *)
(***************************************************************************)
\* Table lengths and indices lie around the first MaxPages page boundaries.
MaxPages == 2

None == <<>>

Min(a, b) == IF a < b THEN a ELSE b

\* Python truthiness of an optional integer: None and 0 are false.
Truthy(v) == v # None /\ v[1] # 0

\* The values next to a multiple of the page size.
Around(x) == {y \in {x - 1, x, x + 1} : y >= 0}

PageEdges == UNION {Around(k * DEFAULT_PAGE_SIZE) : k \in 0..MaxPages}

TableLengths == PageEdges

Items == PageEdges \cup {0 - i : i \in PageEdges}

\* The service may return fewer rows than asked for (its own page limits).
ServerCaps == {DEFAULT_PAGE_SIZE, DEFAULT_PAGE_SIZE \div 2}

(***************************************************************************)
(* The service: tabledata.list.  It answers with the rows from start on,   *)
(* at most max_results of them (a max_results of 0 is not sent, and the    *)
(* service then uses its own limit), and with a page token when rows       *)
(* remain after the page.                                                  *)
(***************************************************************************)
tabledata_list(start, max_results, cap) ==
  LET avail == IF start < remoteRows THEN remoteRows - start ELSE 0
      limit == IF max_results > 0 THEN Min(max_results, cap) ELSE cap
      n == Min(limit, avail)
  IN  [rows |-> [k \in 1..n |-> start + k - 1],
       pageToken |-> IF start + n < remoteRows THEN <<start + n>> ELSE None]

(***************************************************************************)
(* Table._load_info, TableMetadata.rows and Table.length.                  *)
(***************************************************************************)
tables_get == [numRows |-> IF remoteHasCount THEN <<remoteRows>> ELSE None,
               description |-> remoteDescription]

load_info(cur) == IF cur = None THEN <<tables_get>> ELSE cur

rows_of(inf) == IF inf[1].numRows # None THEN inf[1].numRows[1] ELSE 0 - 1

length == rows_of(load_info(info))

(***************************************************************************)
(* Table._get_row_fetcher: the closure's captured values.  raised is TRUE  *)
(* when the call raises (negative start on a table of unknown length).     *)
(***************************************************************************)
get_row_fetcher(start_row, max_rows, page_size) ==
  [start_row |-> IF start_row = 0 THEN 0
                 ELSE IF start_row < 0 /\ length >= 0 THEN start_row + length
                 ELSE start_row,
   raised |-> start_row < 0 /\ length < 0,
   max_rows |-> max_rows,
   page_size |-> page_size]

BudgetSpent_Never(max_rows, count) == FALSE

\* The budget test of _retrieve_rows: the budget is set and used up.
BudgetSpent(max_rows, count) == Truthy(max_rows) /\ count >= max_rows[1]

\* The max_results _retrieve_rows asks for.
MaxResults(max_rows, page_size, count) ==
  IF Truthy(max_rows) /\ page_size > max_rows[1] - count
  THEN max_rows[1] - count
  ELSE page_size

\* The tabledata_list request of _retrieve_rows: the token when there is
\* one, the start row otherwise.
ListRequest_AlwaysOffset(f, page_token, max_results) ==
  [page_token |-> page_token, start_index |-> <<f.start_row>>,
   max_results |-> max_results]

ListRequest(f, page_token, max_results) ==
  IF page_token # None
  THEN [page_token |-> page_token, start_index |-> None,
        max_results |-> max_results]
  ELSE [page_token |-> None, start_index |-> <<f.start_row>>,
        max_results |-> max_results]

(***************************************************************************)
(* _retrieve_rows(page_token, count) of fetcher f, when the request (if    *)
(* one is made) succeeds.  request is None when no request is made.        *)
(***************************************************************************)
retrieve_rows(f, page_token, count, cap) ==
  IF BudgetSpent(f.max_rows, count)
  THEN [rows |-> <<>>, page_token |-> None, request |-> None]
  ELSE LET max_results == MaxResults(f.max_rows, f.page_size, count)
           request == ListRequest(f, page_token, max_results)
           from == IF request.start_index = None THEN request.page_token[1]
                   ELSE request.start_index[1]
           response == tabledata_list(from, max_results, cap)
       IN  [rows |-> response.rows, page_token |-> response.pageToken,
            request |-> <<request>>]

\* The service rejects a request whose start index is negative.
RequestRejected(r) ==
  r.request # None /\ r.request[1].start_index # None
    /\ r.request[1].start_index[1] < 0

(***************************************************************************)
(* Table.__getitem__(item) for an integer item.                            *)
(***************************************************************************)
\* The index after the negative-index adjustment.
Resolved(item) == IF item < 0 THEN item + length ELSE item

CacheMiss(item) ==
  \/ cached_page = <<>>
  \/ cached_page_index > item
  \/ cached_page_index + Len(cached_page) <= item

FirstOfPage(item) == (item \div DEFAULT_PAGE_SIZE) * DEFAULT_PAGE_SIZE

PageCount(first) ==
  IF length >= 0 /\ DEFAULT_PAGE_SIZE > length - first
  THEN length - first
  ELSE DEFAULT_PAGE_SIZE

\* What the call returns from the page it ends with; request is the
\* tabledata_list request the call made (None when it made none).
Lookup(item, it, page, index, request) ==
  IF it - index < Len(page)
  THEN [item |-> item, status |-> "row", row |-> <<page[it - index + 1]>>,
        requests |-> Len(request), request |-> request]
  ELSE [item |-> item, status |-> "IndexError", row |-> None,
        requests |-> Len(request), request |-> request]

getitem(item, cap, fails) ==
  /\ UNCHANGED <<serviceVars, iter, insertVars, decoVars,
                 meta, iter2, encodeVars>>
  /\ IF item < 0 /\ length < 0
     THEN \* negative index, unknown length: raises
          /\ ~fails
          /\ info' = load_info(info)
          /\ getResult' = [item |-> item, status |-> "LengthUnknown",
                           row |-> None, requests |-> 0, request |-> None]
          /\ UNCHANGED <<cached_page, cached_page_index>>
     ELSE LET it == Resolved(item) IN
          IF ~CacheMiss(it)
          THEN \* hit: served from the cached page
               /\ ~fails
               /\ info' = IF item < 0 THEN load_info(info) ELSE info
               /\ getResult' = Lookup(item, it, cached_page, cached_page_index, None)
               /\ UNCHANGED <<cached_page, cached_page_index>>
          ELSE LET first == FirstOfPage(it)
                   count == PageCount(first)
                   fetcher == get_row_fetcher(first, <<count>>, count)
                   r == retrieve_rows(fetcher, None, 0, cap)
               IN  /\ info' = load_info(info)
                   /\ ~fetcher.raised
                   /\ cached_page_index' = first
                   /\ IF fails \/ RequestRejected(r)
                      THEN \* the request or the decoding of a row raises
                           /\ r.request # None
                           /\ getResult' = [item |-> item, status |-> "RequestError",
                                            row |-> None, requests |-> 1,
                                            request |-> r.request]
                           /\ UNCHANGED cached_page
                      ELSE /\ cached_page' = r.rows
                           /\ getResult' = Lookup(item, it, r.rows, first, r.request)

\* table[item], called by the program.
GetItem(item, cap, fails) == getitem(item, cap, fails) /\ UNCHANGED sl

InitService ==
  /\ remoteRows \in TableLengths
  /\ remoteHasCount \in BOOLEAN
  /\ remoteExists = TRUE
  /\ remoteDescription = ""

InitTable ==
  /\ info = None
  /\ cached_page = <<>>
  /\ cached_page_index = 0
  /\ getResult = [item |-> 0, status |-> "none", row |-> None, requests |-> 0,
                  request |-> None]

InitIdle ==
  /\ iter = [pc |-> "idle", fetcher |-> [start_row |-> 0, raised |-> FALSE,
                                          max_rows |-> None, page_size |-> 0],
             page_token |-> None, count |-> 0, rows |-> <<>>, requests |-> 0,
             request |-> None, page_len |-> 0, tick |-> 0]
  /\ ins = [pc |-> "idle", data |-> [kind |-> "list", n |-> 0, fields |-> <<>>],
            include_index |-> FALSE, index_name |-> None, error |-> "none",
            index |-> 0, rows |-> <<>>, total_rows |-> 0, total_pushed |-> 0,
            sleeps |-> <<>>, job_id |-> <<>>]
  /\ sent = <<>>
  /\ applied = <<>>
  /\ table = <<>>
  /\ now = 2 * MSEC_PER_WEEK
  /\ decoResult = [op |-> "none", decorated |-> FALSE, begin |-> None,
                   end |-> None, outcome |-> "none", start |-> None,
                   stop |-> None, clock |-> None, table |-> None]
  /\ meta = [op |-> "none", description |-> None, had_info |-> FALSE,
             gets |-> 0, error |-> "none", outcome |-> "none", seen |-> None]
  /\ iter2 = iter
  /\ column_name_map = <<>>
  /\ enc = [pc |-> "idle", data |-> <<>>, rows |-> <<>>, renames |-> <<>>]
  /\ sl = [pc |-> "idle", start |-> 0, stop |-> 0, step |-> 1, i |-> 0,
           result |-> <<>>]

InitCache == InitService /\ InitTable /\ InitIdle

NextCache == \E item \in Items, cap \in ServerCaps, fails \in BOOLEAN :
               GetItem(item, cap, fails)

SpecCache == InitCache /\ [][NextCache]_vars

(***************************************************************************)
(* C1.  Every row __getitem__ returns for index i is the row a fresh       *)
(* single-row fetch at position i returns: the one-page cache never hands  *)
(* back a stale row or the row of another index.  (Stated for the indices  *)
(* that name a position, i.e. that are not below -length.)                 *)
(***************************************************************************)
\* The position index item names in the remote table.
PositionOf(item) == IF item < 0 THEN item + remoteRows ELSE item

FreshRow(pos) == tabledata_list(pos, 1, DEFAULT_PAGE_SIZE).rows

C1_ReturnedRowIsFresh ==
  (getResult.status = "row" /\ PositionOf(getResult.item) >= 0)
    => getResult.row = FreshRow(PositionOf(getResult.item))

(***************************************************************************)
(* The fetch loop of Table.to_dataframe (and of the iterator Table.range   *)
(* hands the fetcher to): the fetcher is called with the last token and    *)
(* the running count until it returns no token.  StartFetch creates the    *)
(* fetcher; to_dataframe and range create it with the default page size.   *)
(***************************************************************************)
NoFetcher == [start_row |-> 0, raised |-> FALSE, max_rows |-> None, page_size |-> 0]

IterIdle == [pc |-> "idle", fetcher |-> NoFetcher, page_token |-> None,
             count |-> 0, rows |-> <<>>, requests |-> 0, request |-> None,
             page_len |-> 0, tick |-> 0]

\* The requests of a loop are counted up to MaxRequests: enough for every
\* page of the longest table and MaxStalls requests more.
MaxStalls == 2

MaxRequests == 2 * (MaxPages + 1) + MaxStalls

CountRequest(requests) == Min(requests + 1, MaxRequests)

Budgets == {None} \cup {<<b>> : b \in PageEdges}

PageSizes == {DEFAULT_PAGE_SIZE \div 2, DEFAULT_PAGE_SIZE}

StartRows == {0 - 1, 0, 1}

\* The loop's state when it starts: the fetcher, no token, count 0.
Started(start_row, max_rows, page_size) ==
  LET fetcher == get_row_fetcher(start_row, max_rows, page_size)
  IN  [IterIdle EXCEPT !.pc = IF fetcher.raised THEN "failed" ELSE "loop",
                       !.fetcher = fetcher]

StartFetch(start_row, max_rows, page_size) ==
  /\ iter.pc # "loop"
  /\ info' = load_info(info)
  /\ iter' = Started(start_row, max_rows, page_size)
  /\ UNCHANGED <<serviceVars, cacheVars, insertVars, decoVars, meta, iter2,
                 encodeVars, sl>>

\* One turn of the loop that is in state cur: a call of the fetcher with the
\* loop's token and count, and the bookkeeping after it; next is the loop's
\* state after the turn.  page_len is len(page_rows); tick alternates with
\* every turn, so that a turn is a step also when the page is empty and
\* the token the one the call was made with.
Turn(cur, next, cap, fails) ==
  LET r == retrieve_rows(cur.fetcher, cur.page_token, cur.count, cap)
  IN  IF fails \/ RequestRejected(r)
      THEN /\ r.request # None
           /\ next = [cur EXCEPT !.pc = "failed",
                                 !.requests = CountRequest(@),
                                 !.request = r.request,
                                 !.tick = 1 - @]
      ELSE next = [cur EXCEPT
                     !.request = r.request,
                     !.page_len = Len(r.rows),
                     !.tick = 1 - @,
                     !.rows = @ \o r.rows,
                     !.count = @ + Len(r.rows),
                     !.page_token = r.page_token,
                     !.requests = IF r.request = None THEN @
                                  ELSE CountRequest(@),
                     !.pc = IF r.page_token = None THEN "done" ELSE "loop"]

\* A turn of the loop that also kept its page as the Table's cached page.
FetchPage_SharingCache(cap, fails) ==
  /\ iter.pc = "loop"
  /\ Turn(iter, iter', cap, fails)
  /\ cached_page' = iter'.rows
  /\ UNCHANGED <<serviceVars, info, cached_page_index, getResult, insertVars,
                 decoVars, meta, iter2, encodeVars, sl>>

FetchPage(cap, fails) ==
  /\ iter.pc = "loop"
  /\ Turn(iter, iter', cap, fails)
  /\ UNCHANGED <<serviceVars, info, cacheVars, insertVars, decoVars, meta,
                 iter2, encodeVars, sl>>

InitFetch == InitService /\ InitTable /\ InitIdle

NextFetch ==
  \/ \E s \in StartRows, m \in Budgets, p \in PageSizes : StartFetch(s, m, p)
  \/ \E cap \in ServerCaps, fails \in BOOLEAN : FetchPage(cap, fails)

SpecFetch == InitFetch /\ [][NextFetch]_vars

(***************************************************************************)
(* C2.  Driving the fetcher from the first page until it returns no token  *)
(* yields exactly min(totalRemoteRows, B) rows, for every page size P and  *)
(* every row budget B; with no budget it yields all the rows.              *)
(***************************************************************************)
C2_YieldsMinOfTotalAndBudget ==
  (iter.pc = "done" /\ iter.fetcher.start_row = 0)
    => Len(iter.rows) = IF iter.fetcher.max_rows = None
                        THEN remoteRows
                        ELSE Min(remoteRows, iter.fetcher.max_rows[1])

(***************************************************************************)
(* Schema: the list of fields and the name map kept beside it.  A Schema   *)
(* is the sequence of its fields; looking a name up gives the field added  *)
(* last under that name (the map entry is overwritten), or None.           *)
(***************************************************************************)
Field(name, data_type) == [name |-> name, data_type |-> data_type]

add_field(schema, name, data_type) == Append(schema, Field(name, data_type))

SchemaLookup(schema, name) ==
  LET at == {p \in 1..Len(schema) : schema[p].name = name}
  IN  IF at = {} THEN None
      ELSE <<schema[CHOOSE p \in at : \A q \in at : q <= p]>>

\* The service: the schema of the remote table.
RemoteSchema ==
  <<Field("a", "INTEGER"), Field("Index", "INTEGER"), Field("s", "STRING")>>

\* Table.schema
schema == RemoteSchema

(***************************************************************************)
(* The data handed to insertAll: a list of n records or a DataFrame of n   *)
(* rows, whose fields (the first record's keys with the types of its       *)
(* values, or the columns with their dtypes) are `fields`.  Record k is    *)
(* identified with its position k in the data, counted from 0.             *)
(***************************************************************************)
DataFields ==
  {<<>>, <<Field("a", "INTEGER")>>, <<Field("a", "STRING")>>,
   <<Field("b", "INTEGER")>>, <<Field("a", "INTEGER"), Field("b", "STRING")>>}

\* Batches of the model: record counts lie around 0..MaxBatches full posts.
MaxBatches == 2

RecordCounts == UNION {Around(k * max_rows_per_post) : k \in 0..MaxBatches}

Data == [kind : {"list", "dataframe"}, n : RecordCounts, fields : DataFields]

\* The index_name argument: none, a field of the data and of the table, a
\* name the table lacks, a STRING field of the table.
IndexNames == {None, <<"a">>, <<"b">>, <<"s">>}

\* include_index and index_name; index_name is for a list and is read only
\* with include_index.
IndexOptions(data) ==
  {[include_index |-> FALSE, index_name |-> None]}
    \cup {[include_index |-> TRUE, index_name |-> n] :
            n \in IF data.kind = "list" THEN IndexNames ELSE {None}}

\* if not index_name: index_name = 'Index'
IndexName(index_name) == IF index_name = None THEN "Index" ELSE index_name[1]

\* The index field added for a DataFrame as for a list, as C25 states it.
AddsIndexField_AnySource(data, include_index) == include_index

\* insertAll adds the index field to the inferred schema.
AddsIndexField(data, include_index) == data.kind = "list" /\ include_index

\* Schema(data=data), with the index field insertAll adds for a list.
data_schema(data, include_index, index_name) ==
  LET inferred == IF data.kind = "list" /\ data.n = 0 THEN <<>> ELSE data.fields
  IN  IF AddsIndexField(data, include_index)
      THEN add_field(inferred, IndexName(index_name), "INTEGER")
      ELSE inferred

FieldMissing(table_field) == table_field = None

\* Mutant: the type comparison is left out.
TypesDiffer_Never(table_type, data_type) == FALSE

TypesDiffer(table_type, data_type) == table_type # data_type

\* The validation loop: the first data field that fails decides the error.
Validate(dschema, tschema) ==
  LET bad == {p \in 1..Len(dschema) :
                LET table_field == SchemaLookup(tschema, dschema[p].name)
                IN  \/ FieldMissing(table_field)
                    \/ TypesDiffer(table_field[1].data_type, dschema[p].data_type)}
  IN  IF bad = {} THEN "ok"
      ELSE LET p == CHOOSE q \in bad : \A o \in bad : q <= o
           IN  IF FieldMissing(SchemaLookup(tschema, dschema[p].name))
               THEN "MissingField" ELSE "TypeMismatch"

\* uuid.uuid4().hex, in characters: the job ids an insertAll may draw.
JobIds == {<<"1", "a">>, <<"a", "1">>}

\* Table.exists(): tables.get answers 404 for a table that does not exist.
exists == remoteExists

InsIdle == [pc |-> "idle", data |-> [kind |-> "list", n |-> 0, fields |-> <<>>],
            include_index |-> FALSE, index_name |-> None, error |-> "none",
            index |-> 0, rows |-> <<>>, total_rows |-> 0, total_pushed |-> 0,
            sleeps |-> <<>>, job_id |-> <<>>]

(***************************************************************************)
(* Table.insertAll up to its loop: the existence test, the schema          *)
(* validation and the set-up of the loop.                                  *)
(***************************************************************************)
InsertAll(data, include_index, index_name) ==
  /\ ins.pc # "loop"
  /\ sent' = <<>>
  /\ applied' = <<>>
  /\ IF ~exists
     THEN /\ ins' = [InsIdle EXCEPT !.pc = "failed", !.error = "NotFound",
                                    !.data = data, !.include_index = include_index,
                                    !.index_name = index_name]
          /\ UNCHANGED info
     ELSE LET verdict == Validate(data_schema(data, include_index, index_name),
                                  schema)
          IN  /\ info' = load_info(info)
              /\ \E job_id \in JobIds :
                 ins' = [InsIdle EXCEPT
                   !.pc = IF verdict = "ok" THEN "loop" ELSE "failed",
                   !.error = IF verdict = "ok" THEN "none" ELSE verdict,
                   !.data = data, !.include_index = include_index,
                   !.index_name = index_name,
                   !.total_rows = data.n,
                   !.job_id = IF verdict = "ok" THEN job_id ELSE <<>>]
  /\ UNCHANGED <<serviceVars, cacheVars, iter, decoVars,
                 meta, iter2, encodeVars, sl>>

\* str(index), in characters.
Digits == <<"0", "1", "2", "3", "4", "5", "6", "7", "8", "9">>

\* Mutant: the last digit alone.
str_LastDigit(n) == <<Digits[(n % 10) + 1]>>

RECURSIVE str(_)
str(n) ==
  IF n < 10 THEN <<Digits[n + 1]>>
  ELSE str(n \div 10) \o <<Digits[(n % 10) + 1]>>

\* The row appended for the record at position index: its payload and its
\* insertId, job_id + str(index).
Row(job_id, index) == [json |-> index, insertId |-> job_id \o str(index)]

\* Mutant: the batch is sent only when it is full.
ShouldFlush_OnlyWhenFull(total_pushed, total_rows, nrows) ==
  nrows = max_rows_per_post

ShouldFlush(total_pushed, total_rows, nrows) ==
  total_pushed = total_rows \/ nrows = max_rows_per_post

\* Mutant: the response is not looked at.
HasInsertErrors_Ignored(response) == FALSE

HasInsertErrors(response) == "insertErrors" \in response

\* Mutant: the batch is not emptied after it is sent.
RowsAfterFlush_Kept(rows) == rows

\* The rows kept for the next request after a request that succeeded.
RowsAfterFlush(rows) == <<>>

Responses == {{}, {"insertErrors"}}

\* post_interval, in milliseconds.
post_interval == 100

\* Mutant: no pause after a request.
Pause_Skipped(sleeps) == sleeps

\* time.sleep(post_interval): sleeps lists the pauses of the operation.
Pause(sleeps) == Append(sleeps, post_interval)

(***************************************************************************)
(* One turn of insertAll's loop over the records: the row is appended      *)
(* and, when the batch is due, sent; the response either raises or is      *)
(* followed by the pause.  A request is recorded in sent with its rows,    *)
(* its response and the pauses the operation had taken when it was sent.   *)
(***************************************************************************)
InsertRow(response) ==
  /\ ins.pc = "loop"
  /\ ins.index < ins.data.n
  /\ LET rows == Append(ins.rows, Row(ins.job_id, ins.index))
         total_pushed == ins.total_pushed + 1
     IN  IF ShouldFlush(total_pushed, ins.total_rows, Len(rows))
         THEN /\ sent' = Append(sent, [rows |-> rows, response |-> response,
                                       sleeps |-> ins.sleeps])
              /\ IF HasInsertErrors(response)
                 THEN /\ ins' = [ins EXCEPT !.pc = "failed", !.error = "insertErrors",
                                            !.rows = rows,
                                            !.total_pushed = total_pushed]
                      /\ UNCHANGED applied
                 ELSE /\ applied' = applied \o rows
                      /\ ins' = [ins EXCEPT !.index = @ + 1,
                                            !.rows = RowsAfterFlush(rows),
                                            !.total_pushed = total_pushed,
                                            !.sleeps = Pause(@)]
         ELSE /\ response = {}
              /\ ins' = [ins EXCEPT !.index = @ + 1, !.rows = rows,
                                    !.total_pushed = total_pushed]
              /\ UNCHANGED <<sent, applied>>
  /\ UNCHANGED <<serviceVars, info, cacheVars, iter, decoVars,
                 meta, iter2, encodeVars, sl>>

\* The records are exhausted: insertAll returns the table.
InsertReturn ==
  /\ ins.pc = "loop"
  /\ ins.index = ins.data.n
  /\ ins' = [ins EXCEPT !.pc = "done"]
  /\ UNCHANGED <<serviceVars, info, cacheVars, iter, sent, applied, decoVars,
                 meta, iter2, encodeVars, sl>>

InitInsert ==
  /\ remoteRows = 0
  /\ remoteHasCount = TRUE
  /\ remoteExists \in BOOLEAN
  /\ remoteDescription = ""
  /\ InitTable
  /\ InitIdle

NextInsert ==
  \/ \E data \in Data : \E o \in IndexOptions(data) :
       InsertAll(data, o.include_index, o.index_name)
  \/ \E response \in Responses : InsertRow(response)
  \/ InsertReturn

SpecInsert == InitInsert /\ [][NextInsert]_vars

\* The rows of the requests reqs, in the order sent.
RECURSIVE SentRows(_)
SentRows(reqs) ==
  IF reqs = <<>> THEN <<>> ELSE Head(reqs).rows \o SentRows(Tail(reqs))

\* ceil(n / max_rows_per_post)
PostsNeeded(n) == (n + max_rows_per_post - 1) \div max_rows_per_post

(***************************************************************************)
(* C3.  An insertAll of N records that passes validation and meets no      *)
(* insert error issues exactly ceil(N/500) tabledata_insertAll requests:   *)
(* 1 for N = 1 and for N = 500, 2 for N = 501, none for N = 0.             *)
(***************************************************************************)
C3_RequestCount ==
  ins.pc = "done" =>
    /\ Len(sent) = PostsNeeded(ins.data.n)
    /\ ins.data.n = 0 => Len(sent) = 0
    /\ ins.data.n \in {1, 500} => Len(sent) = 1
    /\ ins.data.n = 501 => Len(sent) = 2

C3_Witness == ins.pc = "done" /\ ins.data.n = 501 /\ Len(sent) = 2

(***************************************************************************)
(* C4.  In an insertAll without insert errors the batches sent, put end    *)
(* to end in the order sent, are the source records in source order, each  *)
(* record once; no batch is empty or holds more than 500 rows, and only    *)
(* the last batch may hold fewer than 500.                                 *)
(***************************************************************************)
C4_BatchesAreTheSource ==
  ins.error # "insertErrors" =>
    LET all == SentRows(sent) IN
    /\ \A k \in 1..Len(all) : all[k].json = k - 1
    /\ \A b \in 1..Len(sent) :
         /\ Len(sent[b].rows) >= 1
         /\ Len(sent[b].rows) <= max_rows_per_post
         /\ b < Len(sent) => Len(sent[b].rows) = max_rows_per_post
    /\ ins.pc = "done" =>
         /\ Len(all) = ins.data.n
         /\ \A b \in 1..Len(sent) :
              Len(sent[b].rows) < max_rows_per_post => b = Len(sent)

C4_Witness ==
  /\ ins.pc = "done"
  /\ Len(sent) = 2
  /\ Len(sent[1].rows) = max_rows_per_post
  /\ Len(sent[2].rows) = 1

(***************************************************************************)
(* C5.  When the response to a batch reports insertErrors, insertAll       *)
(* raises at once: that batch is the last request of the call (no later    *)
(* batch is sent, the failed batch is not sent again) and the rows of the  *)
(* batches sent before it stay applied.                                    *)
(***************************************************************************)
C5_AbortOnInsertErrors ==
  \A k \in 1..Len(sent) :
    "insertErrors" \in sent[k].response =>
      /\ k = Len(sent)
      /\ ins.pc = "failed"
      /\ ins.error = "insertErrors"
      /\ applied = SentRows(SubSeq(sent, 1, k - 1))

C5_Witness ==
  /\ ins.pc = "failed"
  /\ ins.error = "insertErrors"
  /\ Len(sent) = 2
  /\ Len(applied) = max_rows_per_post

(***************************************************************************)
(* C6.  insertAll sends no request unless the table exists and every       *)
(* field of the data's schema is in the table's schema with the same       *)
(* type: a missing table, a field the table lacks and a type mismatch      *)
(* each make the call raise with nothing sent.  Fields of the table that   *)
(* the data lacks are permitted.                                           *)
(***************************************************************************)
FieldsCompatible(dschema, tschema) ==
  \A p \in 1..Len(dschema) : \E q \in 1..Len(tschema) :
    /\ tschema[q].name = dschema[p].name
    /\ tschema[q].data_type = dschema[p].data_type

C6_NothingSentUnlessValid ==
  LET valid == remoteExists
                 /\ FieldsCompatible(data_schema(ins.data, ins.include_index,
                                                 ins.index_name),
                                     RemoteSchema)
  IN  /\ Len(sent) > 0 => valid
      /\ (ins.pc # "idle" /\ ~valid) =>
           /\ ins.pc = "failed"
           /\ ins.error \in {"NotFound", "MissingField", "TypeMismatch"}
           /\ sent = <<>>

\* A request is sent for data that has field a and lacks the table's Index.
C6_Witness ==
  /\ Len(sent) > 0
  /\ data_schema(ins.data, ins.include_index, ins.index_name)
       = <<Field("a", "INTEGER")>>

(***************************************************************************)
(* Decorators.  A point in time is a datetime (ms: milliseconds since the  *)
(* epoch), a timedelta (ms: its length in milliseconds) or a value of      *)
(* another type.  A decorator "@<value>" is <<value>> and a decorator      *)
(* "@<start>-<stop>" is <<start, stop>>; a table is the sequence of the    *)
(* decorators its name carries.                                            *)
(***************************************************************************)
MSEC_PER_DAY == 24 * 3600 * 1000

MSEC_PER_HOUR == 3600 * 1000

\* The clock advances by at most MaxClock milliseconds in a behaviour.
MaxClock == 2

Timedelta(ms) == [kind |-> "timedelta", ms |-> ms]

Datetime(ms) == [kind |-> "datetime", ms |-> ms]

Timedeltas ==
  {Timedelta(ms) : ms \in {0 - MSEC_PER_WEEK - 1, 0 - MSEC_PER_WEEK,
                           0 - 2 * MSEC_PER_DAY, 0 - MSEC_PER_DAY, 0,
                           MSEC_PER_DAY}}

\* Datetimes the caller makes from the clock reading t, and ones at the epoch.
Datetimes(t) ==
  {Datetime(ms) : ms \in {t - 8 * MSEC_PER_DAY, t - MSEC_PER_HOUR, t,
                          t + MSEC_PER_DAY, 0 - MSEC_PER_DAY, 0}}

OtherType == [kind |-> "other", ms |-> 0]

\* The arguments tried on a table without decorator, and the ones tried on
\* a table that has one (a good one and three bad ones).
Whens(t, decorated) ==
  IF decorated
  THEN {Timedelta(0 - MSEC_PER_DAY), Timedelta(MSEC_PER_DAY),
        Datetime(t + MSEC_PER_DAY), OtherType}
  ELSE Timedeltas \cup Datetimes(t) \cup {OtherType}

ClockSteps == {0, 1}

\* The test of an absolute value against the clock reading clock.
AbsoluteInRange(value, clock) == clock - MSEC_PER_WEEK < value /\ value < clock

(***************************************************************************)
(* Table._convert_decorator_time(when), with clock the reading utcnow()    *)
(* gives if it is asked.  error is "" when the value is returned.  Times   *)
(* are whole milliseconds here, so int(value) is the value itself.         *)
(***************************************************************************)
convert_decorator_time(when, clock) ==
  LET value == when.ms IN
  IF when.kind \notin {"datetime", "timedelta"}
  THEN [error |-> "InvalidType", value |-> None]
  ELSE IF when.kind = "timedelta" /\ value > 0
  THEN [error |-> "InvalidRelative", value |-> None]
  ELSE IF value < 0 - MSEC_PER_WEEK
  THEN [error |-> "NotWithin7Days", value |-> None]
  ELSE IF value > 0 /\ ~AbsoluteInRange(value, clock)
  THEN [error |-> "InvalidAbsolute", value |-> None]
  ELSE [error |-> "", value |-> <<value>>]

\* Mutant: the decorator of the table is not looked at.
IsDecorated_Never(name_parts) == FALSE

\* self._name_parts.decorator != ''
IsDecorated(name_parts) == name_parts # <<>>

\* _parse_table_name of the name "<full_name>@<decorator>": the decorator
\* part of the name is all of the name from its first @ on.
parse_table_name(full_name, decorator) == Append(full_name, decorator)

\* Table(self._api, name): the new table's name parts.
NewTable(full_name, decorator) == parse_table_name(full_name, decorator)

NoCall == [op |-> "none", decorated |-> FALSE, begin |-> None, end |-> None,
           outcome |-> "none", start |-> None, stop |-> None, clock |-> None,
           table |-> None]

(***************************************************************************)
(* Table.snapshot(at).  The clock is read d milliseconds after the call.   *)
(***************************************************************************)
Snapshot(at, d) ==
  /\ now + d <= 2 * MSEC_PER_WEEK + MaxClock
  /\ now' = now + d
  /\ LET call == [NoCall EXCEPT !.op = "snapshot", !.begin = <<at>>,
                                !.decorated = (table # <<>>)]
     IN  IF IsDecorated(table)
         THEN decoResult' = [call EXCEPT !.outcome = "AlreadyDecorated"]
         ELSE LET c == convert_decorator_time(at, now + d)
              IN  IF c.error # ""
                  THEN decoResult' = [call EXCEPT !.outcome = c.error,
                                                  !.clock = <<now + d>>]
                  ELSE decoResult' = [call EXCEPT
                                        !.outcome = "ok", !.start = c.value,
                                        !.clock = <<now + d>>,
                                        !.table = <<NewTable(table, c.value)>>]
  /\ UNCHANGED <<serviceVars, info, cacheVars, iter, insertVars, table,
                 meta, iter2, encodeVars, sl>>

\* Mutant: only an absolute begin with a relative end is refused.
SignsDiffer_OneWay(start, stop) == start > 0 /\ 0 >= stop

\* Both values must have the same sign.
SignsDiffer(start, stop) == (start > 0 /\ 0 >= stop) \/ (stop > 0 /\ 0 >= start)

BeginAfterEnd(start, stop) == start > stop

(***************************************************************************)
(* Table.window(begin, end).  The clock is read by the conversion of       *)
(* begin, for an omitted end, and by the conversion of end; d1 is the time *)
(* that passes before the first two readings and d2 the time between       *)
(* taking utcnow() as the end and the reading that end is tested against.  *)
(***************************************************************************)
Window(begin, end, d1, d2) ==
  /\ now + d1 + d2 <= 2 * MSEC_PER_WEEK + MaxClock
  /\ now' = now + d1 + d2
  /\ LET call == [NoCall EXCEPT !.op = "window", !.begin = <<begin>>, !.end = end,
                                !.decorated = (table # <<>>)]
     IN  IF IsDecorated(table)
         THEN decoResult' = [call EXCEPT !.outcome = "AlreadyDecorated"]
         ELSE LET b == convert_decorator_time(begin, now + d1)
                  the_end == IF end # None THEN end[1]
                             ELSE IF begin.kind = "timedelta" THEN Timedelta(0)
                             ELSE Datetime(now + d1)
                  e == convert_decorator_time(the_end, now + d1 + d2)
              IN  IF b.error # ""
                  THEN decoResult' = [call EXCEPT !.outcome = b.error]
                  ELSE IF e.error # ""
                  THEN decoResult' = [call EXCEPT !.outcome = e.error,
                                                  !.start = b.value]
                  ELSE LET start == b.value[1]
                           stop == e.value[1]
                           done == [call EXCEPT !.start = b.value, !.stop = e.value]
                       IN  IF SignsDiffer(start, stop)
                           THEN decoResult' = [done EXCEPT !.outcome = "SignMismatch"]
                           ELSE IF BeginAfterEnd(start, stop)
                           THEN decoResult' = [done EXCEPT !.outcome = "BeginAfterEnd"]
                           ELSE decoResult' =
                                  [done EXCEPT
                                     !.outcome = "ok",
                                     !.table = <<NewTable(table, <<start, stop>>)>>]
  /\ UNCHANGED <<serviceVars, info, cacheVars, iter, insertVars, table,
                 meta, iter2, encodeVars, sl>>

\* The caller goes on with the table the last call returned.
UseReturned ==
  /\ decoResult.outcome = "ok"
  /\ table' = decoResult.table[1]
  /\ UNCHANGED <<serviceVars, info, cacheVars, iter, insertVars, now, decoResult,
                 meta, iter2, encodeVars, sl>>

\* The caller goes back to the table without decorator.
UseUndecorated ==
  /\ table # <<>>
  /\ table' = <<>>
  /\ UNCHANGED <<serviceVars, info, cacheVars, iter, insertVars, now, decoResult,
                 meta, iter2, encodeVars, sl>>

InitDeco ==
  /\ remoteRows = 0
  /\ remoteHasCount = TRUE
  /\ remoteExists = TRUE
  /\ remoteDescription = ""
  /\ InitTable
  /\ InitIdle

NextDeco ==
  \/ \E at \in Whens(now, table # <<>>), d \in ClockSteps : Snapshot(at, d)
  \/ \E begin \in Whens(now, table # <<>>),
        end \in {None} \cup {<<w>> : w \in Whens(now, table # <<>>)},
        d1 \in ClockSteps, d2 \in ClockSteps :
       Window(begin, end, d1, d2)
  \/ UseReturned
  \/ UseUndecorated

SpecDeco == InitDeco /\ [][NextDeco]_vars

(***************************************************************************)
(* C7.  snapshot() and window() on a table that has a decorator always     *)
(* fail with the already-decorated error, whatever the time arguments      *)
(* (the test comes before the arguments are looked at); so every table     *)
(* that snapshot/window calls lead to carries at most one decorator.       *)
(***************************************************************************)
C7_OneDecoratorAtMost ==
  /\ (decoResult.op # "none" /\ decoResult.decorated) =>
       /\ decoResult.outcome = "AlreadyDecorated"
       /\ decoResult.table = None
  /\ Len(table) <= 1
  /\ decoResult.table # None => Len(decoResult.table[1]) <= 1

\* window() with an argument of a wrong type is refused for the decorator.
C7_Witness ==
  /\ decoResult.op = "window"
  /\ decoResult.decorated
  /\ decoResult.begin = <<OtherType>>
  /\ decoResult.outcome = "AlreadyDecorated"

(***************************************************************************)
(* C8.  window() accepts begin and end only if the resolved start is       *)
(* strictly less than the resolved stop; start = stop is refused too.      *)
(***************************************************************************)
C8_StartStrictlyBeforeStop ==
  (decoResult.op = "window" /\ decoResult.outcome = "ok")
    => decoResult.start[1] < decoResult.stop[1]

(***************************************************************************)
(* C9.  window() refuses every pair of which one resolved value is         *)
(* positive (absolute) and the other is not (relative), and so it refuses  *)
(* window(-1 day, +1 day); two relative bounds within 7 days with begin    *)
(* before end are accepted and give the decorator start-stop with          *)
(* start < stop and neither positive (both negative for -2 days, -1 day).  *)
(***************************************************************************)
C9_SameSignOnly ==
  (decoResult.op = "window" /\ ~decoResult.decorated) =>
    LET begin == decoResult.begin[1]
        end == decoResult.end
    IN
    /\ (decoResult.start # None /\ decoResult.stop # None) =>
         LET start == decoResult.start[1]
             stop == decoResult.stop[1]
         IN  ((start > 0) # (stop > 0)) => decoResult.outcome = "SignMismatch"
    /\ (begin = Timedelta(0 - MSEC_PER_DAY) /\ end = <<Timedelta(MSEC_PER_DAY)>>)
         => decoResult.outcome \notin {"ok", "none"}
    /\ (/\ begin.kind = "timedelta"
        /\ end # None
        /\ end[1].kind = "timedelta"
        /\ 0 - MSEC_PER_WEEK <= begin.ms
        /\ begin.ms < end[1].ms
        /\ end[1].ms <= 0)
         => /\ decoResult.outcome = "ok"
            /\ decoResult.table = <<(<< <<begin.ms, end[1].ms>> >>)>>
            /\ decoResult.start[1] < decoResult.stop[1]
            /\ decoResult.start[1] < 0
            /\ decoResult.stop[1] <= 0
    /\ (begin = Timedelta(0 - 2 * MSEC_PER_DAY)
        /\ end = <<Timedelta(0 - MSEC_PER_DAY)>>)
         => /\ decoResult.outcome = "ok"
            /\ decoResult.start[1] < 0
            /\ decoResult.stop[1] < 0

C9_Witness ==
  /\ decoResult.op = "window"
  /\ decoResult.begin = <<Timedelta(0 - 2 * MSEC_PER_DAY)>>
  /\ decoResult.end = <<Timedelta(0 - MSEC_PER_DAY)>>
  /\ decoResult.outcome = "ok"
  /\ decoResult.table = <<(<< <<0 - 2 * MSEC_PER_DAY, 0 - MSEC_PER_DAY>> >>)>>

\* A relative begin with an absolute end is refused for the signs.
C9_WitnessMixed ==
  /\ decoResult.op = "window"
  /\ decoResult.outcome = "SignMismatch"
  /\ decoResult.start[1] < 0
  /\ decoResult.stop[1] > 0

(***************************************************************************)
(* C10.  _convert_decorator_time accepts a point in time exactly when it   *)
(* is a timedelta that is zero or negative and reaches back at most 7      *)
(* days, or a datetime within the last 7 days and not in the future;       *)
(* every other input is refused: a positive timedelta, one beyond 7 days,  *)
(* a datetime older than 7 days, in the future, or at or before the epoch. *)
(***************************************************************************)
ClaimedToBeAccepted(when, clock) ==
  \/ when.kind = "timedelta" /\ 0 - MSEC_PER_WEEK <= when.ms /\ when.ms <= 0
  \/ when.kind = "datetime" /\ when.ms > 0
       /\ clock - MSEC_PER_WEEK < when.ms /\ when.ms < clock

C10_AcceptedExactlyWhenInRange ==
  (decoResult.op = "snapshot" /\ ~decoResult.decorated) =>
    ((decoResult.outcome = "ok")
       <=> ClaimedToBeAccepted(decoResult.begin[1], decoResult.clock[1]))

(***************************************************************************)
(* C11.  On a table of known length L a lookup with a negative index i     *)
(* returns the row at position L + i (table[-1] is the row at L - 1); on   *)
(* a table of unknown length a negative index raises the length-unknown    *)
(* error and issues no row fetch.  (Stated for the indices that name a     *)
(* position, i.e. that are not below -L.)                                  *)
(***************************************************************************)
C11_NegativeIndexCountsFromEnd ==
  (getResult.status # "none" /\ getResult.item < 0)
    => IF remoteHasCount
       THEN (getResult.status = "row" /\ remoteRows + getResult.item >= 0)
              => getResult.row = <<remoteRows + getResult.item>>
       ELSE getResult.status = "LengthUnknown" /\ getResult.requests = 0

\* The second half of C11, and the part no bug reaches: the call that raises
\* the length-unknown error leaves the cached page and its start alone.
C11_LengthUnknownKeepsCache ==
  [][getResult'.status = "LengthUnknown"
       => UNCHANGED <<cached_page, cached_page_index>>]_vars

(***************************************************************************)
(* C12.  On a table of known length L a lookup with index i >= L never     *)
(* returns a row: it ends in the index-out-of-range error (or in the error *)
(* of the request, when the request it makes fails).  On a table of        *)
(* unknown length the lookup attempts the fetch, and an empty page from    *)
(* the service ends in the same error.                                     *)
(***************************************************************************)
C12_BeyondLengthNeverReturnsRow ==
  (getResult.status # "none" /\ getResult.item >= remoteRows)
    => /\ getResult.status \in {"IndexError", "RequestError"}
       /\ ~remoteHasCount => getResult.requests = 1

(***************************************************************************)
(* C13.  On a table of known length L a lookup with index i >= L is        *)
(* refused before any network effect: the call issues no tabledata_list    *)
(* request and leaves the cached page and its start as they were.          *)
(***************************************************************************)
C13_BeyondLengthHasNoEffect ==
  [][(getResult'.status # "none" /\ remoteHasCount
        /\ getResult'.item >= remoteRows)
       => /\ getResult'.requests = 0
          /\ UNCHANGED <<cached_page, cached_page_index>>]_vars

(***************************************************************************)
(* The metadata of the table: Table.metadata, Table.schema and             *)
(* Table.length (which all go through _load_info), Table.exists,           *)
(* Table.update and Table.delete.  A collaborator call answers "ok" or     *)
(* raises: "NotFound" is the request error with status 404, "Error" any    *)
(* other error.  meta records the last call: whether _info was cached when *)
(* it began, the tables_get requests it made, the error a collaborator     *)
(* raised in it, how it ended and the description it returned.             *)
(***************************************************************************)
Descriptions == {"d1", "d2"}

\* The service: what a request about the table may answer.
Answers == IF remoteExists THEN {"ok", "Error"} ELSE {"NotFound", "Error"}

AllAnswers == {"ok", "NotFound", "Error"}

\* Table._load_info with the answer of the tables_get request it makes when
\* nothing is cached; the request that raises leaves _info None.
load_info_from(cur, answer) ==
  IF cur # None \/ answer = "ok" THEN load_info(cur) ELSE None

MetaCall(op, description, gets, error, outcome, seen) ==
  [op |-> op, description |-> description, had_info |-> info # None,
   gets |-> gets, error |-> error, outcome |-> outcome, seen |-> seen]

\* Table.metadata, Table.schema, Table.length
ReadInfo(op, answer) ==
  /\ IF info # None THEN answer = "ok" ELSE answer \in Answers
  /\ info' = load_info_from(info, answer)
  /\ meta' = IF info' = None
             THEN MetaCall(op, None, 1, answer, "raised", None)
             ELSE MetaCall(op, None, IF info = None THEN 1 ELSE 0, "none",
                           "returned", <<info'[1].description>>)
  /\ UNCHANGED <<serviceVars, cacheVars, iter, insertVars, decoVars, iter2,
                 encodeVars, sl>>

\* Table.exists: a tables_get request of its own, whatever is cached.
Exists(answer) ==
  /\ answer \in Answers
  /\ meta' = MetaCall("exists", None, 1,
                      IF answer = "ok" THEN "none" ELSE answer,
                      CASE answer = "ok" -> "True"
                        [] answer = "NotFound" -> "False"
                        [] OTHER -> "raised",
                      None)
  /\ UNCHANGED <<serviceVars, info, cacheVars, iter, insertVars, decoVars,
                 iter2, encodeVars, sl>>

\* Table.update's change of the cached _info before the request.
Modified(inf, description) ==
  IF description = None THEN inf
  ELSE <<[inf[1] EXCEPT !.description = description[1]]>>

\* Table.update's except clause: the cached metadata is abandoned.
InfoAfterFailedUpdate_Kept(modified) == modified

InfoAfterFailedUpdate(modified) == None

\* Table.update(description=description).  When table_update raises, the
\* service may or may not have made the change (took).
Update(description, answer1, answer2, took) ==
  /\ IF info # None THEN answer1 = "ok" ELSE answer1 \in Answers
  /\ answer2 \in Answers
  /\ LET loaded == load_info_from(info, answer1)
         gets == IF info = None THEN 1 ELSE 0
     IN  IF loaded = None
         THEN /\ answer2 = "Error" /\ ~took
              /\ info' = None
              /\ meta' = MetaCall("update", description, gets, answer1,
                                  "raised", None)
              /\ UNCHANGED remoteDescription
         ELSE LET modified == Modified(loaded, description) IN
              /\ took => answer2 = "Error"
              /\ info' = IF answer2 = "ok" THEN modified
                         ELSE InfoAfterFailedUpdate(modified)
              /\ remoteDescription' = IF answer2 = "ok" \/ took
                                      THEN modified[1].description
                                      ELSE remoteDescription
              /\ meta' = MetaCall("update", description, gets,
                                  IF answer2 = "ok" THEN "none" ELSE answer2,
                                  "returned", None)
  /\ UNCHANGED <<remoteRows, remoteHasCount, remoteExists, cacheVars, iter,
                 insertVars, decoVars, iter2, encodeVars, sl>>

\* Table.delete.  When table_delete raises, the table may or may not be gone.
Delete(answer, took) ==
  /\ answer \in Answers
  /\ took => answer = "Error"
  /\ remoteExists' = IF answer = "ok" \/ took THEN FALSE ELSE remoteExists
  /\ meta' = MetaCall("delete", None, 0,
                      IF answer = "ok" THEN "none" ELSE answer, "returned", None)
  /\ UNCHANGED <<remoteRows, remoteHasCount, remoteDescription, info,
                 cacheVars, iter, insertVars, decoVars, iter2, encodeVars, sl>>

InitMeta == InitService /\ InitTable /\ InitIdle

NextMeta ==
  \/ \E op \in {"metadata", "schema", "length"}, answer \in AllAnswers :
       ReadInfo(op, answer)
  \/ \E answer \in AllAnswers : Exists(answer)
  \/ \E description \in {None} \cup {<<d>> : d \in Descriptions},
        answer1 \in AllAnswers, answer2 \in AllAnswers, took \in BOOLEAN :
       Update(description, answer1, answer2, took)
  \/ \E answer \in AllAnswers, took \in BOOLEAN : Delete(answer, took)

SpecMeta == InitMeta /\ [][NextMeta]_vars

C14_WitnessFailedUpdate ==
  /\ meta.op = "update" /\ meta.error = "Error" /\ meta.outcome = "returned"
  /\ meta.description # None /\ meta.description # <<remoteDescription>>
  /\ info = None

C15_ErrorsReachTheCaller ==
  meta.error # "none"
    => IF meta.op = "exists" /\ meta.error = "NotFound"
       THEN meta.outcome = "False"
       ELSE meta.outcome = "raised"

(***************************************************************************)
(* Table._encode_dict_as_row and the part of the insertAll loop that calls *)
(* it.  A field name is the sequence of its characters; a record (a Python *)
(* dictionary) is a function from names to values, and the value of a      *)
(* field is written as the name the data gave it, so that the values of    *)
(* two fields differ.  Python fixes no order for record.keys(): the order  *)
(* is an input of the step.  The ISO string put in the place of a date     *)
(* (lines 425-426) changes a value and no name, and is left out.           *)
(***************************************************************************)
VALID_COLUMN_NAME_CHARACTERS ==
  {"_", "a", "b", "c", "d", "e", "f", "g", "h", "i", "j", "k", "l", "m",
   "n", "o", "p", "q", "r", "s", "t", "u", "v", "w", "x", "y", "z", "A",
   "B", "C", "D", "E", "F", "G", "H", "I", "J", "K", "L", "M", "N", "O",
   "P", "Q", "R", "S", "T", "U", "V", "W", "X", "Y", "Z", "0", "1", "2",
   "3", "4", "5", "6", "7", "8", "9"}

\* Records of the data have at most MaxKeys fields; the data has at most
\* MaxRecords records.
MaxKeys == 2

MaxRecords == 2

Names == {<<"a", " ", "b">>, <<"a", "b">>, <<"-", "a">>, <<"$">>}

Records == {[k \in keys |-> k] :
              keys \in {ks \in SUBSET Names : Cardinality(ks) \in 1..MaxKeys}}

Datas == UNION {[1..n -> Records] : n \in 1..MaxRecords}

\* The orders record.keys() may give.
KeyOrders(record) ==
  {o \in [1..Cardinality(DOMAIN record) -> DOMAIN record] :
     \A p, q \in DOMAIN o : p # q => o[p] # o[q]}

IsValidCharacter(c) == c \in VALID_COLUMN_NAME_CHARACTERS

\* ''.join(c for c in k if c in Table._VALID_COLUMN_NAME_CHARACTERS)
sanitize_Replaced(k) ==
  [p \in 1..Len(k) |-> IF IsValidCharacter(k[p]) THEN k[p] ELSE "_"]

sanitize(k) == SelectSeq(k, IsValidCharacter)

\* record[k] = v and del record[k]
SetItem(record, k, v) ==
  [x \in DOMAIN record \cup {k} |-> IF x = k THEN v ELSE record[x]]

DelItem(record, k) == [x \in DOMAIN record \ {k} |-> record[x]]

\* One turn of the loop over record.keys(), for key k.  renames notes the
\* new_k the turn used for k.
encode_key(st, k) ==
  LET v == st.record[k]
      map == IF k \in DOMAIN st.column_name_map THEN st.column_name_map
             ELSE SetItem(st.column_name_map, k, sanitize(k))
      new_k == map[k]
  IN  [record |-> IF k # new_k THEN DelItem(SetItem(st.record, new_k, v), k)
                  ELSE st.record,
       column_name_map |-> map,
       renames |-> SetItem(st.renames, k, new_k)]

RECURSIVE encode_keys(_, _)
encode_keys(st, keys) ==
  IF keys = <<>> THEN st
  ELSE encode_keys(encode_key(st, Head(keys)), Tail(keys))

encode_dict_as_row(record, map, keys) ==
  encode_keys([record |-> record, column_name_map |-> map, renames |-> <<>>],
              keys)

\* insertAll comes to its loop: column_name_map = {}
StartEncode(data) ==
  /\ enc.pc # "loop"
  /\ column_name_map' = <<>>
  /\ enc' = [pc |-> "loop", data |-> data, rows |-> <<>>, renames |-> <<>>]
  /\ UNCHANGED <<serviceVars, info, cacheVars, iter, insertVars, decoVars,
                 meta, iter2, sl>>

\* The loop encodes the next record.
EncodeRow(keys) ==
  /\ enc.pc = "loop"
  /\ LET record == enc.data[Len(enc.rows) + 1]
         e == encode_dict_as_row(record, column_name_map, keys)
     IN  /\ keys \in KeyOrders(record)
         /\ column_name_map' = e.column_name_map
         /\ enc' = [enc EXCEPT
                      !.rows = Append(@, e.record),
                      !.renames = Append(@, e.renames),
                      !.pc = IF Len(enc.rows) + 1 = Len(enc.data)
                             THEN "done" ELSE "loop"]
  /\ UNCHANGED <<serviceVars, info, cacheVars, iter, insertVars, decoVars,
                 meta, iter2, sl>>

InitEncode ==
  /\ remoteRows = 0
  /\ remoteHasCount = TRUE
  /\ remoteExists = TRUE
  /\ remoteDescription = ""
  /\ InitTable
  /\ InitIdle

NextEncode ==
  \/ \E data \in Datas : StartEncode(data)
  \/ \E keys \in UNION {KeyOrders(r) : r \in Records} : EncodeRow(keys)

SpecEncode == InitEncode /\ [][NextEncode]_vars

(***************************************************************************)
(* C16.  Within one insertAll call the sanitization of field names is a    *)
(* memoized pure function: the memo is empty when the call starts; every   *)
(* name is mapped to itself without the characters outside [A-Za-z0-9_],   *)
(* the others kept in their order; and every occurrence of a name, in      *)
(* whichever record, is mapped to the same sanitized name.                 *)
(***************************************************************************)
\* s is k with the characters outside [A-Za-z0-9_] removed and nothing else
\* changed: the p-th kept character of k is the p-th character of s.
IsStripped(k, s) ==
  LET kept == {p \in 1..Len(k) : IsValidCharacter(k[p])}
      rank(p) == Cardinality({q \in kept : q <= p})
  IN  /\ Len(s) = Cardinality(kept)
      /\ \A p \in kept : s[rank(p)] = k[p]

C16_SanitizationIsMemoizedAndPure ==
  /\ (enc.pc = "loop" /\ enc.rows = <<>>) => column_name_map = <<>>
  /\ \A k \in DOMAIN column_name_map : IsStripped(k, column_name_map[k])
  /\ \A i \in DOMAIN enc.renames : \A k \in DOMAIN enc.renames[i] :
       /\ k \in DOMAIN enc.data[i]
       /\ IsStripped(k, enc.renames[i][k])
       /\ \A j \in DOMAIN enc.renames :
            k \in DOMAIN enc.renames[j] => enc.renames[j][k] = enc.renames[i][k]

\* Two records of one call carry the name "a b", and both were sent as "ab".
C16_Witness ==
  /\ enc.pc = "done" /\ Len(enc.renames) = 2
  /\ \A i \in 1..2 : /\ <<"a", " ", "b">> \in DOMAIN enc.renames[i]
                      /\ enc.renames[i][<<"a", " ", "b">>] = <<"a", "b">>

(***************************************************************************)
(* Random access while a fetch loop is in progress on the same Table: the  *)
(* calls of __getitem__ come between the turns of the loop.                *)
(***************************************************************************)
SharedItems == {0 - 1, 0, DEFAULT_PAGE_SIZE}

SharedBudgets == {None, <<1>>, <<DEFAULT_PAGE_SIZE + 1>>}

SharedStartRows == {0, 1}

SharedLengths == {1, DEFAULT_PAGE_SIZE + 1}

InitShared ==
  /\ remoteRows \in SharedLengths
  /\ remoteHasCount \in BOOLEAN
  /\ remoteExists = TRUE
  /\ remoteDescription = ""
  /\ InitTable
  /\ InitIdle

NextShared ==
  \/ \E item \in SharedItems, cap \in ServerCaps, fails \in BOOLEAN :
       GetItem(item, cap, fails)
  \/ \E s \in SharedStartRows, m \in SharedBudgets, p \in PageSizes :
       StartFetch(s, m, p)
  \/ \E cap \in ServerCaps, fails \in BOOLEAN : FetchPage(cap, fails)

SpecShared == InitShared /\ [][NextShared]_vars

(***************************************************************************)
(* C17.  Streaming and random access share no cached state: no step        *)
(* changes both the fetch loop's state (token, count, rows) and the        *)
(* Table's cached page or cached start, and the rows a loop has received   *)
(* are those it receives with no lookup in between, whatever the cache     *)
(* holds.                                                                  *)
(***************************************************************************)
\* The rows a loop with fetcher f receives when nothing else runs: the rows
\* from the start row on, to the end of the table or of the budget.
RowsAlone(f) ==
  LET avail == IF f.start_row < remoteRows THEN remoteRows - f.start_row ELSE 0
      n == IF Truthy(f.max_rows) THEN Min(avail, f.max_rows[1]) ELSE avail
  IN  [k \in 1..n |-> f.start_row + k - 1]

IsPrefix(s, t) == Len(s) <= Len(t) /\ s = SubSeq(t, 1, Len(s))

ReceivesRowsAlone(cur) ==
  /\ IsPrefix(cur.rows, RowsAlone(cur.fetcher))
  /\ cur.pc = "done" => cur.rows = RowsAlone(cur.fetcher)

C17_StreamingAndCacheAreDisjoint ==
  /\ []ReceivesRowsAlone(iter)
  /\ [][\/ UNCHANGED <<iter, iter2>>
        \/ UNCHANGED <<cached_page, cached_page_index, getResult>>]_vars

\* A loop is between two pages while the cache holds a page a lookup put
\* there after the loop began.
C17_Witness ==
  /\ iter.pc = "loop" /\ iter.count > 0 /\ iter.page_token # None
  /\ getResult.status = "row" /\ getResult.requests = 1
  /\ cached_page # <<>> /\ cached_page_index = DEFAULT_PAGE_SIZE

(***************************************************************************)
(* Two callers on the same Table, each with a fetch loop of its own: its   *)
(* own fetcher, token and count.  Their turns come in any order.           *)
(***************************************************************************)
StartFetch2(start_row, max_rows, page_size) ==
  /\ iter2.pc # "loop"
  /\ info' = load_info(info)
  /\ iter2' = Started(start_row, max_rows, page_size)
  /\ UNCHANGED <<serviceVars, cacheVars, iter, insertVars, decoVars, meta,
                 encodeVars, sl>>

\* A turn of the second loop made with the token the first loop holds.
FetchPage2_SharedToken(cap, fails) ==
  /\ iter2.pc = "loop"
  /\ Turn([iter2 EXCEPT !.page_token = iter.page_token], iter2', cap, fails)
  /\ UNCHANGED <<serviceVars, info, cacheVars, iter, insertVars, decoVars,
                 meta, encodeVars, sl>>

FetchPage2(cap, fails) ==
  /\ iter2.pc = "loop"
  /\ Turn(iter2, iter2', cap, fails)
  /\ UNCHANGED <<serviceVars, info, cacheVars, iter, insertVars, decoVars,
                 meta, encodeVars, sl>>

NextTwo ==
  \/ \E s \in SharedStartRows, m \in SharedBudgets, p \in PageSizes :
       StartFetch(s, m, p)
  \/ \E cap \in ServerCaps, fails \in BOOLEAN : FetchPage(cap, fails)
  \/ \E s \in SharedStartRows, m \in SharedBudgets, p \in PageSizes :
       StartFetch2(s, m, p)
  \/ \E cap \in ServerCaps, fails \in BOOLEAN : FetchPage2(cap, fails)

SpecTwo == InitShared /\ [][NextTwo]_vars

(***************************************************************************)
(* C18.  Two callers with a fetch cursor each may take their turns in any  *)
(* order: each receives the rows it receives when it runs alone, in the    *)
(* same order.                                                             *)
(***************************************************************************)
C18_InterleavedCursorsAreIndependent ==
  ReceivesRowsAlone(iter) /\ ReceivesRowsAlone(iter2)

\* Both loops are between two of their pages, at different places of the
\* table: each has fetched and each has a turn to come.
C18_Witness ==
  /\ iter.pc = "loop" /\ iter.count > 0
  /\ iter2.pc = "loop" /\ iter2.count > 0
  /\ iter.page_token # iter2.page_token

(***************************************************************************)
(* C19.  A lookup is a hit exactly when cachedStart <= index < cachedStart *)
(* + len(cachedPage), and a hit makes no request and leaves the cache      *)
(* alone.  A miss makes exactly one tabledata_list request, for the page   *)
(* that starts at floor(index / pageSize) * pageSize and has min(pageSize, *)
(* knownLength - start) rows, and puts that page in the place of the       *)
(* cached one.  The cache never holds more than pageSize rows.             *)
(***************************************************************************)
\* The lookup of the step just made, read against the cache before it.
HitMissProtocol ==
  LET it == PositionOf(getResult'.item)
      hit == /\ cached_page_index <= it
             /\ it < cached_page_index + Len(cached_page)
      start == (it \div DEFAULT_PAGE_SIZE) * DEFAULT_PAGE_SIZE
      rows == IF remoteHasCount
              THEN Min(DEFAULT_PAGE_SIZE, remoteRows - start)
              ELSE DEFAULT_PAGE_SIZE
  IN  IF hit
      THEN /\ getResult'.requests = 0
           /\ UNCHANGED <<cached_page, cached_page_index>>
      ELSE /\ getResult'.requests = 1
           /\ getResult'.request[1].start_index = <<start>>
           /\ getResult'.request[1].max_results = rows
           /\ cached_page_index' = start
           /\ cached_page' = [k \in 1..Len(cached_page') |-> start + k - 1]

C19_HitMissProtocol ==
  /\ [](Len(cached_page) <= DEFAULT_PAGE_SIZE)
  /\ [][getResult'.status \notin {"none", "LengthUnknown"}
          => HitMissProtocol]_vars

(***************************************************************************)
(* C20.  When the count the fetcher is called with has reached the row     *)
(* budget, the fetcher returns an empty page and no token and makes no     *)
(* tabledata_list request, whatever token it is called with.               *)
(***************************************************************************)
C20_NoRequestOnceBudgetIsReached ==
  [][(/\ iter.pc = "loop" /\ iter' # iter
      /\ iter.fetcher.max_rows # None
      /\ iter.count >= iter.fetcher.max_rows[1])
       => /\ iter'.rows = iter.rows
          /\ iter'.page_token = None
          /\ iter'.requests = iter.requests]_vars

(***************************************************************************)
(* C21.  Every tabledata_list request of the fetcher asks for max_results  *)
(* = min(page size, budget - count) when a row budget is set and for the   *)
(* page size when none is set; so with a budget B the rows received before *)
(* a request and the rows it asks for never exceed B together.             *)
(***************************************************************************)
\* The step is a turn of the loop in which the fetcher sent a request.
TurnWithRequest == iter.pc = "loop" /\ iter'.requests = iter.requests + 1

C21_RequestsStayWithinBudget ==
  [][TurnWithRequest
       => LET B == iter.fetcher.max_rows
              asked == iter'.request[1].max_results
          IN  IF B = None
              THEN asked = iter.fetcher.page_size
              ELSE /\ asked = Min(iter.fetcher.page_size, B[1] - iter.count)
                   /\ iter.count + asked <= B[1]]_vars

(***************************************************************************)
(* C22.  A call of the fetcher with a token sends a request that carries   *)
(* that token and no start offset; the start offset is sent only by a call *)
(* with no token, which in a loop is the first request alone.              *)
(***************************************************************************)
C22_TokenTakesPrecedence ==
  /\ []((iter.requests > 1 /\ iter.request # None)
          => iter.request[1].start_index = None)
  /\ [][TurnWithRequest
          => LET sent_request == iter'.request[1]
             IN  IF iter.page_token # None
                 THEN /\ sent_request.page_token = iter.page_token
                      /\ sent_request.start_index = None
                 ELSE /\ sent_request.page_token = None
                      /\ sent_request.start_index = <<iter.fetcher.start_row>>
                      /\ iter.requests = 0]_vars

\* The third request of a loop that began at row 1 carries the token of the
\* second page.
C22_Witness ==
  /\ iter.requests = 3 /\ iter.fetcher.start_row = 1
  /\ iter.request[1].page_token = <<DEFAULT_PAGE_SIZE + 1>>
  /\ iter.request[1].start_index = None

(***************************************************************************)
(* The loop of to_dataframe against a service that may also answer a       *)
(* request with an empty page and a token (cap 0).  The loop keeps taking  *)
(* turns for as long as it runs: nothing else runs in its thread.          *)
(***************************************************************************)
LoopCaps == ServerCaps \cup {0}

InitLoop == InitShared

TurnOfLoop == \E cap \in LoopCaps, fails \in BOOLEAN : FetchPage(cap, fails)

NextLoop ==
  \/ \E s \in SharedStartRows, m \in SharedBudgets, p \in PageSizes :
       StartFetch(s, m, p)
  \/ \E cap \in LoopCaps, fails \in BOOLEAN : FetchPage(cap, fails)

SpecLoop == InitLoop /\ [][NextLoop]_vars /\ WF_vars(TurnOfLoop)

\* The last call of the fetcher returned an empty page with a token.
Stalled ==
  iter.pc = "loop" /\ iter.request # None /\ iter.page_len = 0

(***************************************************************************)
(* C23.  A fetch loop with a row budget set reaches a call that returns no *)
(* token after finitely many fetches, whatever pages and tokens the        *)
(* service returns.                                                        *)
(***************************************************************************)
C23_BudgetedLoopIsFinite ==
  (iter.pc = "loop" /\ iter.fetcher.max_rows # None) ~> (iter.pc # "loop")

(***************************************************************************)
(* C23, amended.  A fetch loop ends unless the service keeps returning     *)
(* empty pages with a token: a loop with a budget B >= 1 never holds more  *)
(* than B rows, every turn that leaves the loop running has added a row or *)
(* stalled, and a loop that does not stall for ever ends; a loop without a *)
(* budget ends exactly at the first page that comes without a token.       *)
(***************************************************************************)
C23_LoopIsFiniteUnlessServiceStalls ==
  /\ [](Truthy(iter.fetcher.max_rows)
          => iter.count <= iter.fetcher.max_rows[1])
  /\ [][(iter.pc = "loop" /\ iter'.pc = "loop" /\ iter' # iter)
          => (iter'.count > iter.count \/ Stalled')]_vars
  /\ [][(/\ iter.pc = "loop" /\ iter' # iter /\ iter'.pc # "failed"
         /\ iter.fetcher.max_rows = None)
          => (iter'.pc = "done" <=> iter'.page_token = None)]_vars
  /\ ([]<>Stalled \/ (iter.pc = "loop" ~> iter.pc # "loop"))

\* A loop with budget 1 over 1025 rows whose first request stalled: the
\* second request gets the row and the call after it returns no token.
C23_Witness ==
  /\ iter.pc = "done" /\ iter.fetcher.max_rows = <<1>>
  /\ remoteRows = DEFAULT_PAGE_SIZE + 1
  /\ iter.count = 1 /\ iter.requests = 2 /\ iter.request = None

(***************************************************************************)
(* C24.  Every batch that succeeds is followed by one pause of             *)
(* post_interval before anything else is sent: no pause precedes the first *)
(* request, exactly one lies between two consecutive requests, the pauses  *)
(* are as many as the batches that succeeded, and a batch answered with    *)
(* insert errors is followed by no pause and no request.                   *)
(***************************************************************************)
Succeeded == {k \in 1..Len(sent) : ~HasInsertErrors(sent[k].response)}

C24_OnePauseAfterEverySuccessfulBatch ==
  /\ ins.sleeps = [k \in 1..Cardinality(Succeeded) |-> post_interval]
  /\ \A k \in 1..Len(sent) :
       /\ Len(sent[k].sleeps) = k - 1
       /\ HasInsertErrors(sent[k].response)
            => /\ k = Len(sent)
               /\ ins.pc = "failed"
               /\ ins.sleeps = sent[k].sleeps

\* Three requests, the third answered with insert errors: two pauses.
C24_Witness ==
  /\ Len(sent) = MaxBatches + 1
  /\ HasInsertErrors(sent[MaxBatches + 1].response)
  /\ Len(ins.sleeps) = MaxBatches

(***************************************************************************)
(* C25.  When insertAll is asked to include the index, for a DataFrame as  *)
(* for a list, the index column is in the inferred schema as an INTEGER    *)
(* field when the schema is validated: an insert whose index column the    *)
(* table lacks, or holds with another type, fails validation and sends     *)
(* nothing.                                                                *)
(***************************************************************************)
IndexFieldAccepted(index_name) ==
  \E q \in 1..Len(RemoteSchema) :
    RemoteSchema[q] = Field(IndexName(index_name), "INTEGER")

C25_IndexColumnIsValidated ==
  (ins.pc # "idle" /\ remoteExists /\ ins.include_index)
    => /\ \E p \in 1..Len(data_schema(ins.data, TRUE, ins.index_name)) :
            data_schema(ins.data, TRUE, ins.index_name)[p]
              = Field(IndexName(ins.index_name), "INTEGER")
       /\ ~IndexFieldAccepted(ins.index_name)
            => /\ ins.pc = "failed"
               /\ ins.error \in {"MissingField", "TypeMismatch"}
               /\ sent = <<>>

(***************************************************************************)
(* C26.  Every row insertAll sends carries as insertId the job id of the   *)
(* operation followed by the row's ordinal index, and the insertIds of all *)
(* the rows the operation has sent, over all its requests, are distinct.   *)
(***************************************************************************)
KeysAreJobIdAndOrdinal(job_id, all) ==
  /\ \A k \in 1..Len(all) : all[k].insertId = job_id \o str(k - 1)
  /\ Cardinality({all[k].insertId : k \in 1..Len(all)}) = Len(all)

C26_KeysAreDistinct ==
  [][(sent' # sent /\ sent' # <<>>)
       => KeysAreJobIdAndOrdinal(ins.job_id, SentRows(sent'))]_vars

\* The second request of an operation begins with the row of ordinal 500.
C26_Witness ==
  /\ Len(sent) = 2
  /\ sent[2].rows[1].insertId = ins.job_id \o <<"5", "0", "0">>
  /\ sent[1].rows[1].insertId = ins.job_id \o <<"0">>

(***************************************************************************)
(* C27.  In a Schema the field names are unique and the lookup by name     *)
(* agrees with the lookup by position: schema[schema[p].name] is the field *)
(* at position p, for every position p.  This holds for the schema of the  *)
(* table and for the schema insertAll infers from the data, the index      *)
(* field included.                                                         *)
(***************************************************************************)
NamesAreUnique(s) ==
  \A p, q \in 1..Len(s) : s[p].name = s[q].name => p = q

\* The position the lookup by name of the field at position p arrives at.
PositionByName(s, p) ==
  CHOOSE q \in 1..Len(s) :
    /\ s[q].name = s[p].name
    /\ \A o \in 1..Len(s) : s[o].name = s[p].name => o <= q

LookupsAgree(s) ==
  \A p \in 1..Len(s) :
    /\ SchemaLookup(s, s[p].name) = <<s[p]>>
    /\ PositionByName(s, p) = p

C27_SchemaNamesAreUnique ==
  /\ NamesAreUnique(schema) /\ LookupsAgree(schema)
  /\ (ins.pc # "idle" /\ remoteExists)
       => LET inferred == data_schema(ins.data, ins.include_index,
                                      ins.index_name)
          IN  NamesAreUnique(inferred) /\ LookupsAgree(inferred)

(***************************************************************************)
(* C28.  A lookup that fails while its page is fetched leaves the cache as *)
(* it was before the lookup: the cached page and the cached start index    *)
(* are unchanged.                                                          *)
(***************************************************************************)
C28_FailedFetchKeepsCache ==
  [][getResult'.status = "RequestError"
       => UNCHANGED <<cached_page, cached_page_index>>]_vars

(***************************************************************************)
(* C29.  On a table of known length L a lookup of an index i < -L never    *)
(* returns a row and never stores a negative start index in the cache: it  *)
(* fails as an index out of range.                                         *)
(***************************************************************************)
BelowTheTable ==
  /\ getResult.status # "none"
  /\ remoteHasCount
  /\ getResult.item < 0 - remoteRows

C29_BelowMinusLengthIsOutOfRange ==
  /\ remoteHasCount => cached_page_index >= 0
  /\ BelowTheTable
       => /\ getResult.row = None
          /\ getResult.status \in {"IndexError", "RequestError"}

(***************************************************************************)
(* Table.__getitem__(item) for a slice item: a loop of integer lookups.    *)
(* A turn of the loop tests i < item.stop and, when it holds, looks self[i]*)
(* up, appends the row and adds the step; a lookup that raises ends the    *)
(* call.                                                                   *)
(***************************************************************************)
SliceStarts == {0, 1}

SliceStops == {0, 2, DEFAULT_PAGE_SIZE + 1}

\* item.step: absent, zero, positive, negative.
SliceSteps == {None, <<0>>, <<1>>, <<2>>, <<0 - 1>>}

\* step = item.step if item.step else 1
StepOf(step) == IF Truthy(step) THEN step[1] ELSE 1

GetSlice(start, stop, step) ==
  /\ sl.pc # "loop"
  /\ sl' = [pc |-> "loop", start |-> start, stop |-> stop,
            step |-> StepOf(step), i |-> start, result |-> <<>>]
  /\ UNCHANGED <<serviceVars, info, cacheVars, iter, insertVars, decoVars,
                 meta, iter2, encodeVars>>

SliceTurn(cap, fails) ==
  /\ sl.pc = "loop"
  /\ IF sl.i < sl.stop
     THEN /\ getitem(sl.i, cap, fails)
          /\ sl' = IF getResult'.status = "row"
                   THEN [sl EXCEPT !.result = Append(@, getResult'.row[1]),
                                   !.i = @ + sl.step]
                   ELSE [sl EXCEPT !.pc = "failed"]
     ELSE /\ ~fails
          /\ sl' = [sl EXCEPT !.pc = "done"]
          /\ UNCHANGED <<serviceVars, info, cacheVars, iter, insertVars,
                         decoVars, meta, iter2, encodeVars>>

SliceLengths == {1, DEFAULT_PAGE_SIZE + 1}

InitSlice ==
  /\ remoteRows \in SliceLengths
  /\ remoteHasCount \in BOOLEAN
  /\ remoteExists = TRUE
  /\ remoteDescription = ""
  /\ InitTable
  /\ InitIdle

NextSlice ==
  \/ \E start \in SliceStarts, stop \in SliceStops, step \in SliceSteps :
       GetSlice(start, stop, step)
  \/ \E cap \in ServerCaps, fails \in BOOLEAN : SliceTurn(cap, fails)

SpecSlice == InitSlice /\ [][NextSlice]_vars

(***************************************************************************)
(* C30.  A slice lookup terminates for every step, positive, negative,     *)
(* zero or absent: every lookup of its loop brings i nearer to stop, so    *)
(* the loop makes no more lookups than there are indices from start up to  *)
(* stop.  It returns the rows of the integer lookups at start, start +     *)
(* step, ... below stop, a zero or absent step counting as 1.              *)
(***************************************************************************)
\* The indices start, start + step, ... below stop, as far as a step >= 1
\* gives them; none when start is not below stop.
SliceIndices(start, stop, step) ==
  IF start < stop /\ step >= 1
  THEN [k \in 1..((stop - start + step - 1) \div step) |-> start + (k - 1) * step]
  ELSE <<>>

C30_SliceTerminatesAndReturnsLookups ==
  /\ [][(sl.pc = "loop" /\ sl' # sl /\ sl.i < sl.stop)
          => /\ getResult'.item = sl.start + Len(sl.result) * sl.step
             /\ sl'.pc = "loop"
                  => /\ sl'.result = Append(sl.result, getResult'.row[1])
                     /\ sl'.i > sl.i
                     /\ Len(sl'.result) <= sl.stop - sl.start]_vars
  /\ [](sl.pc = "done"
          => Len(sl.result) = Len(SliceIndices(sl.start, sl.stop, sl.step)))

(***************************************************************************)
(* C31.  The encoding of a record loses no field: the row sent has as many *)
(* fields as the record, and every field of the record is in the row,      *)
(* under the name it was sent as, with its own value.  (The value of a     *)
(* field of the data is its original name.)                                *)
(***************************************************************************)
KeepsEveryField(record, row, renamed) ==
  /\ Cardinality(DOMAIN row) = Cardinality(DOMAIN record)
  /\ \A k \in DOMAIN record :
       /\ renamed[k] \in DOMAIN row
       /\ row[renamed[k]] = record[k]
  /\ \A k, l \in DOMAIN record : k # l => renamed[k] # renamed[l]

C31_EncodingLosesNoField ==
  \A i \in DOMAIN enc.rows :
    KeepsEveryField(enc.data[i], enc.rows[i], enc.renames[i])


====
